---- MODULE Spec2Model ----
(***************************************************************************)
(* Model of the document chunker of app/services/utils/process_file.py     *)
(* (class FileProcessor): the limit inspector, the strategy selector, the  *)
(* page-based and size-based PDF splitters, the image compressor and the   *)
(* orchestration loop process_file_with_ocr (OCR per chunk, join, cleanup).*)
(*                                                                         *)
(* A PDF is modelled by the sequence of its page sizes in bytes; page      *)
(* indices are 0-based as in the source.  The serialized size of a PDF     *)
(* built from a list of pages is the sum of the sizes of those pages.      *)
(* A text is a sequence of tokens <<kind, n>>.                             *)
(***************************************************************************)
EXTENDS Integers, Sequences, FiniteSets, TLC

\* ---------------------------------------------------------------- bounds
\* Longest document whose pages take every combination of PageSizes.
MaxSizedPages == 3
\* Longest document (beyond MaxSizedPages, all pages of one of LightPages).
MaxDocPages == 25
\* Largest max_pages argument handed to split_pdf_by_pages on its own.
MaxFnPages == 10

\* ------------------------------------------------------ program constants
max_size_mb == 10
max_pages == 10
max_size_bytes == max_size_mb * 1024 * 1024

MiB == 1024 * 1024
PageSizes == {3 * MiB, 7 * MiB, 11 * MiB}
LightPages == {512 * 1024, 1 * MiB}

\* ------------------------------------------------------------ small helpers
Min(a, b) == IF a < b THEN a ELSE b
Max(a, b) == IF a > b THEN a ELSE b

RECURSIVE SumSeq(_)
SumSeq(s) == IF s = <<>> THEN 0 ELSE Head(s) + SumSeq(Tail(s))

\* The pages from_page..to_page, as insert_pdf(doc, from_page, to_page) copies them.
insert_pdf(from_page, to_page) ==
    [k \in 1..(to_page - from_page + 1) |-> from_page + k - 1]

\* os.path.getsize of the PDF saved from the listed pages of a document.
pdf_size(pages, sizes) == SumSeq([k \in 1..Len(pages) |-> sizes[pages[k] + 1]])

\* ------------------------------------------------------------------ tokens
NL == <<"nl", 0>>
SP == <<"sp", 0>>
Mark == <<"x", 0>>
PageMark(p) == <<"page", p>>
Whitespace == {NL, SP}

\* str.strip(): the text without its leading and trailing whitespace.
RECURSIVE lstrip(_)
lstrip(t) == IF t # <<>> /\ Head(t) \in Whitespace THEN lstrip(Tail(t)) ELSE t
RECURSIVE rstrip(_)
rstrip(t) ==
    IF t # <<>> /\ t[Len(t)] \in Whitespace THEN rstrip(SubSeq(t, 1, Len(t) - 1)) ELSE t
strip(t) == rstrip(lstrip(t))

\* '\n'.join(texts)
RECURSIVE join(_)
join(texts) ==
    IF texts = <<>> THEN <<>>
    ELSE IF Len(texts) = 1 THEN texts[1]
    ELSE texts[1] \o <<NL>> \o join(Tail(texts))


\* ------------------------------------------------------------------ inputs
\* Documents: every combination of PageSizes up to MaxSizedPages pages, and
\* longer documents of equal light pages up to MaxDocPages pages.
SizedDocs == UNION {[1..n -> PageSizes] : n \in 0..MaxSizedPages}
LongDocs == {[k \in 1..n |-> b] : n \in (MaxSizedPages + 1)..MaxDocPages, b \in LightPages}
Docs == SizedDocs \cup LongDocs

\* Bytes of a source file that belong to no page (0, or more than the limit).
Overheads == {0, 11 * MiB}

MissingFile ==
    [exists |-> FALSE, ext |-> ".pdf", pages |-> <<>>, overhead |-> 0,
     fitz_ok |-> FALSE, pypdf_ok |-> FALSE, converted |-> FALSE]
PdfFiles ==
    {[exists |-> TRUE, ext |-> ".pdf", pages |-> d, overhead |-> o,
      fitz_ok |-> r[1], pypdf_ok |-> r[2], converted |-> FALSE] :
        d \in Docs, o \in Overheads,
        r \in {<<TRUE, TRUE>>, <<FALSE, TRUE>>, <<FALSE, FALSE>>}}
\* Images: a .png has one frame, a .tif any number of frames.
ImageFiles ==
    {[exists |-> TRUE, ext |-> x, pages |-> d, overhead |-> 0,
      fitz_ok |-> TRUE, pypdf_ok |-> TRUE, converted |-> FALSE] :
        x \in {".png", ".tif"}, d \in {y \in Docs : Len(y) >= 1}}
    \ {f \in [exists : {TRUE}, ext : {".png"}, pages : Docs, overhead : {0},
               fitz_ok : {TRUE}, pypdf_ok : {TRUE}, converted : {FALSE}] :
            Len(f.pages) > 1}
Files == {MissingFile} \cup PdfFiles \cup ImageFiles

\* The path handed to process_file_with_ocr, and the paths inside a directory
\* made by tempfile.mkdtemp (directory 0 is the directory of the source file).
\* A file made by FileConverter.convert_to_pdf lies in tempfile.gettempdir()
\* under the name <stem>_converted.pdf.
SourceDir == 0
TempDir == 1
SysTempDir == 2
FilePath(f) ==
    IF f.converted
    THEN [dir |-> SysTempDir, kind |-> "converted", num |-> 0, ext |-> f.ext]
    ELSE [dir |-> SourceDir, kind |-> "source", num |-> 0, ext |-> f.ext]
ChunkPath(chunk_num) == [dir |-> TempDir, kind |-> "chunk", num |-> chunk_num, ext |-> ".pdf"]
CompressedPath(f) == [dir |-> TempDir, kind |-> "compressed", num |-> 0, ext |-> f.ext]
\* os.path.join(temp_dir, f"temp_chunk_{chunk_num}.pdf")
TrialPath(chunk_num) == [dir |-> TempDir, kind |-> "trial", num |-> chunk_num, ext |-> ".pdf"]

AllPages(f) == [k \in 1..Len(f.pages) |-> k - 1]
SourceChunk(f) == [path |-> FilePath(f), pages |-> AllPages(f), quality |-> 0]

\* ------------------------------------------------------- limit inspector
\* os.path.getsize(file_path)
getsize(f) == SumSeq(f.pages) + f.overhead

\* FileProcessor.get_file_info: (file_size, page_count)
get_file_info(f) ==
    [file_size |-> getsize(f),
     page_count |->
        IF f.ext = ".pdf"
        THEN IF f.fitz_ok THEN Len(f.pages)
             ELSE IF f.pypdf_ok THEN Len(f.pages)
             ELSE 1
        ELSE 1]

\* FileProcessor.needs_splitting: (size_exceeds, pages_exceed)
needs_splitting_at_limit(file_size, page_count) ==
    [size_exceeds |-> file_size >= max_size_bytes,
     pages_exceed |-> page_count >= max_pages]
needs_splitting(file_size, page_count) ==
    [size_exceeds |-> file_size > max_size_bytes,
     pages_exceed |-> page_count > max_pages]

\* ----------------------------------------------------- strategy selector
\* The branch of process_file_with_ocr that picks the splitter.
select_strategy_size_first(file_extension, size_exceeds, pages_exceed) ==
    IF size_exceeds \/ pages_exceed
    THEN IF file_extension = ".pdf"
         THEN IF size_exceeds THEN "size" ELSE "pages"
         ELSE IF size_exceeds THEN "image" ELSE "none"
    ELSE "none"
select_strategy(file_extension, size_exceeds, pages_exceed) ==
    IF size_exceeds \/ pages_exceed
    THEN IF file_extension = ".pdf"
         THEN IF pages_exceed THEN "pages"
              ELSE IF size_exceeds THEN "size"
              ELSE "none"
         ELSE IF size_exceeds THEN "image" ELSE "none"
    ELSE "none"

\* --------------------------------------------------- page-based splitter
\* The loop of split_pdf_by_pages: for start_page in range(0, total_pages, max_pages).
RECURSIVE pages_loop(_, _, _)
pages_loop(start_page, total_pages, maxp) ==
    IF start_page >= total_pages THEN <<>>
    ELSE LET end_page == Min(start_page + maxp - 1, total_pages - 1)
         IN  <<insert_pdf(start_page, end_page)>>
                \o pages_loop(start_page + maxp, total_pages, maxp)

\* The page lists of the chunks split_pdf_by_pages writes when nothing fails.
split_pdf_by_pages_overlap(total_pages, maxp) ==
    [k \in 1..((total_pages + maxp - 1) \div maxp) |->
        insert_pdf((k - 1) * maxp, Min(k * maxp, total_pages - 1))]
split_pdf_by_pages(total_pages, maxp) == pages_loop(0, total_pages, maxp)

\* --------------------------------------------------- size-based splitter
\* The loop of split_pdf_by_size over page_num, with its accumulator
\* current_chunk_pages and the chunks closed so far.
RECURSIVE size_loop(_, _, _, _, _)
size_loop(page_num, current_chunk_pages, chunks, sizes, target_size_bytes) ==
    IF page_num >= Len(sizes)
    THEN IF current_chunk_pages # <<>>
         THEN Append(chunks, current_chunk_pages)
         ELSE chunks
    ELSE LET trial == Append(current_chunk_pages, page_num)
         IN  IF pdf_size(trial, sizes) > target_size_bytes /\ Len(trial) > 1
             THEN size_loop(page_num + 1, <<page_num>>,
                            Append(chunks, current_chunk_pages), sizes, target_size_bytes)
             ELSE size_loop(page_num + 1, trial, chunks, sizes, target_size_bytes)

\* Variants of the loop, each with one slip: closing the chunk when the trial
\* is at the target already; closing it without asking for a second page;
\* starting the next chunk empty.
RECURSIVE size_loop_at_limit(_, _, _, _, _)
size_loop_at_limit(page_num, current_chunk_pages, chunks, sizes, target_size_bytes) ==
    IF page_num >= Len(sizes)
    THEN IF current_chunk_pages # <<>>
         THEN Append(chunks, current_chunk_pages)
         ELSE chunks
    ELSE LET trial == Append(current_chunk_pages, page_num)
         IN  IF pdf_size(trial, sizes) >= target_size_bytes /\ Len(trial) > 1
             THEN size_loop_at_limit(page_num + 1, <<page_num>>,
                            Append(chunks, current_chunk_pages), sizes, target_size_bytes)
             ELSE size_loop_at_limit(page_num + 1, trial, chunks, sizes, target_size_bytes)
RECURSIVE size_loop_no_len_check(_, _, _, _, _)
size_loop_no_len_check(page_num, current_chunk_pages, chunks, sizes, target_size_bytes) ==
    IF page_num >= Len(sizes)
    THEN IF current_chunk_pages # <<>>
         THEN Append(chunks, current_chunk_pages)
         ELSE chunks
    ELSE LET trial == Append(current_chunk_pages, page_num)
         IN  IF pdf_size(trial, sizes) > target_size_bytes
             THEN size_loop_no_len_check(page_num + 1, <<page_num>>,
                            Append(chunks, current_chunk_pages), sizes, target_size_bytes)
             ELSE size_loop_no_len_check(page_num + 1, trial, chunks, sizes, target_size_bytes)
RECURSIVE size_loop_drop_page(_, _, _, _, _)
size_loop_drop_page(page_num, current_chunk_pages, chunks, sizes, target_size_bytes) ==
    IF page_num >= Len(sizes)
    THEN IF current_chunk_pages # <<>>
         THEN Append(chunks, current_chunk_pages)
         ELSE chunks
    ELSE LET trial == Append(current_chunk_pages, page_num)
         IN  IF pdf_size(trial, sizes) > target_size_bytes /\ Len(trial) > 1
             THEN size_loop_drop_page(page_num + 1, <<>>,
                            Append(chunks, current_chunk_pages), sizes, target_size_bytes)
             ELSE size_loop_drop_page(page_num + 1, trial, chunks, sizes, target_size_bytes)
\* A variant that closes the chunk with the page that made it too large.
RECURSIVE size_loop_no_pop(_, _, _, _, _)
size_loop_no_pop(page_num, current_chunk_pages, chunks, sizes, target_size_bytes) ==
    IF page_num >= Len(sizes)
    THEN IF current_chunk_pages # <<>>
         THEN Append(chunks, current_chunk_pages)
         ELSE chunks
    ELSE LET trial == Append(current_chunk_pages, page_num)
         IN  IF pdf_size(trial, sizes) > target_size_bytes /\ Len(trial) > 1
             THEN size_loop_no_pop(page_num + 1, <<>>,
                            Append(chunks, trial), sizes, target_size_bytes)
             ELSE size_loop_no_pop(page_num + 1, trial, chunks, sizes, target_size_bytes)
split_pdf_by_size_no_pop(sizes, target_size_bytes) ==
    size_loop_no_pop(0, <<>>, <<>>, sizes, target_size_bytes)
split_pdf_by_size_at_limit(sizes, target_size_bytes) ==
    size_loop_at_limit(0, <<>>, <<>>, sizes, target_size_bytes)
split_pdf_by_size_no_len_check(sizes, target_size_bytes) ==
    size_loop_no_len_check(0, <<>>, <<>>, sizes, target_size_bytes)
split_pdf_by_size_drop_page(sizes, target_size_bytes) ==
    size_loop_drop_page(0, <<>>, <<>>, sizes, target_size_bytes)

\* The page lists of the chunks split_pdf_by_size writes when nothing fails.
split_pdf_by_size(sizes, target_size_bytes) ==
    size_loop(0, <<>>, <<>>, sizes, target_size_bytes)

\* ------------------------------------------- file operations of the splitters
\* A save of a file and an os.remove of one.
Write(path) == [op |-> "write", path |-> path]
Remove(path) == [op |-> "remove", path |-> path]

\* The saves of split_pdf_by_pages, in order: chunk_<k>.pdf for each page list.
split_pdf_by_pages_ops(lists) == [k \in 1..Len(lists) |-> Write(ChunkPath(k - 1))]

\* The saves and removes of split_pdf_by_size, in order: each pass saves the
\* trial file temp_chunk_<chunk_num>.pdf, saves chunk_<chunk_num>.pdf when the
\* trial is too large, and removes the trial file; the remaining pages are
\* saved after the loop.
RECURSIVE size_ops_loop(_, _, _, _, _)
size_ops_loop(page_num, current_chunk_pages, chunk_num, sizes, target_size_bytes) ==
    IF page_num >= Len(sizes)
    THEN IF current_chunk_pages # <<>>
         THEN <<Write(ChunkPath(chunk_num))>>
         ELSE <<>>
    ELSE LET trial == Append(current_chunk_pages, page_num)
             trial_path == TrialPath(chunk_num)
         IN  IF pdf_size(trial, sizes) > target_size_bytes /\ Len(trial) > 1
             THEN <<Write(trial_path), Write(ChunkPath(chunk_num)), Remove(trial_path)>>
                    \o size_ops_loop(page_num + 1, <<page_num>>, chunk_num + 1,
                                     sizes, target_size_bytes)
             ELSE <<Write(trial_path), Remove(trial_path)>>
                    \o size_ops_loop(page_num + 1, trial, chunk_num,
                                     sizes, target_size_bytes)
split_pdf_by_size_ops(sizes, target_size_bytes) ==
    size_ops_loop(0, <<>>, 0, sizes, target_size_bytes)

\* The paths a sequence of file operations has written, and those it leaves.
FilesWritten(ops) == {ops[k].path : k \in {j \in 1..Len(ops) : ops[j].op = "write"}}
FilesLeft(ops) ==
    {ops[k].path :
        k \in {j \in 1..Len(ops) :
                 /\ ops[j].op = "write"
                 /\ \A m \in (j + 1)..Len(ops) :
                        ~(ops[m].op = "remove" /\ ops[m].path = ops[j].path)}}

\* ------------------------------------------------------ image compressor
\* The quotients q for which the double product (q / 90) * 90 is below q, so
\* that int() of it is q - 1.  For a ratio target / current that is not such
\* an exact q / 90, int((target / current) * 90) is the floor of the quotient.
FloatShortQuotients == {13, 26, 49, 52, 63}

\* int((target_size_bytes / current_size) * 90), computed in doubles.
float_scaled_quality(current_size, target_size_bytes) ==
    LET q == (target_size_bytes * 90) \div current_size
        exact == (target_size_bytes * 90) % current_size = 0
    IN  IF exact /\ q \in FloatShortQuotients THEN q - 1 ELSE q

\* quality = int((target_size_bytes / current_size) * 90), kept between 10 and 90
image_quality(current_size, target_size_bytes) ==
    Max(10, Min(float_scaled_quality(current_size, target_size_bytes), 90))


\* ------------------------------------------------------ OCR collaborator
\* DocumentOCR.get_mime_type: the MIME type declared for a path, from its
\* extension alone.
get_mime_type(extension) ==
    CASE extension = ".pdf" -> "application/pdf"
      [] extension = ".png" -> "image/png"
      [] extension \in {".jpg", ".jpeg"} -> "image/jpeg"
      [] extension = ".gif" -> "image/gif"
      [] extension = ".webp" -> "image/webp"
      [] extension = ".bmp" -> "image/bmp"
      [] extension \in {".tiff", ".tif"} -> "image/tiff"
      [] OTHER -> "application/octet-stream"

\* The encoding of the bytes at a path: JPEG for what split_image_by_size
\* saved (format='JPEG'), PDF for what fitz saved or FileConverter wrote, and
\* for a source file the encoding its extension names.
encoding(path) ==
    CASE path.kind = "compressed" -> "image/jpeg"
      [] path.kind \in {"chunk", "converted"} -> "application/pdf"
      [] OTHER -> get_mime_type(path.ext)

\* What extract_text_from_single_file can do with a chunk: raise, or return
\* an empty text, a whitespace-only text, one marker per page of the chunk,
\* or a fixed text with whitespace around it.
OcrKinds == {"raise", "empty", "blank", "echo", "padded"}
OcrText(kind, chunk) ==
    CASE kind = "empty" -> <<>>
      [] kind = "blank" -> <<SP, NL>>
      [] kind = "echo" -> [k \in 1..Len(chunk.pages) |-> PageMark(chunk.pages[k])]
      [] kind = "padded" -> <<SP, Mark, NL>>
      [] OTHER -> <<>>

\* ------------------------------------------------------------------ state
VARIABLES
    file,           \* the source document at file_path (never written by the model)
    pc,             \* position inside process_file_with_ocr
    info,           \* file_size, page_count, size_exceeds, pages_exceed
    strategy,       \* the splitter the selector called
    split_failed,   \* the splitter caught an exception and fell back
    chunks,         \* the chunk list
    i,              \* index of the next chunk of the OCR loop and of the cleanup loop
    all_text,       \* texts kept so far
    ocr_log,        \* every OCR call made: chunk index, path, outcome, text
    combined_text,  \* '\n'.join(all_text)
    disk,           \* paths of the files that exist
    dirs,           \* temporary directories that exist
    created,        \* every path the call has written
    undeletable,    \* paths whose os.remove raised during cleanup
    result,         \* what the call gave its caller
    fn,             \* a splitter called on its own: arguments and returned page lists
    ocr,            \* DocumentOCR.extract_text around the call: position, source, outcome
    conc,           \* two calls of process_file_with_ocr sharing one file system
    sp,             \* a splitter run step by step, twice on the same document
    xt              \* two calls of extract_text on convertible files

vars == <<file, pc, info, strategy, split_failed, chunks, i, all_text, ocr_log,
          combined_text, disk, dirs, created, undeletable, result, fn, ocr, conc, sp, xt>>

NoInfo == [file_size |-> 0, page_count |-> 0, size_exceeds |-> FALSE, pages_exceed |-> FALSE]
NoResult == [kind |-> "pending", text |-> <<>>]
FnIdle ==
    [op |-> "none", sizes |-> <<>>, maxp |-> 1, target |-> 0, called |-> FALSE,
     out |-> <<>>, paths |-> <<>>, quality |-> 0, written |-> {}, failed |-> FALSE,
     raised |-> FALSE]

NoLimits == [file_size |-> 0, page_count |-> 0, size_exceeds |-> FALSE, pages_exceed |-> FALSE]
OcrIdle ==
    [pc |-> "idle", source |-> MissingFile, is_temporary |-> FALSE, limits |-> NoLimits,
     direct |-> <<>>, outcome |-> NoResult, result |-> NoResult, error |-> "",
     cleanup |-> "none"]
NoCall ==
    [pc |-> "idle", doc |-> 0, dir |-> 0, pending |-> <<>>, chunks |-> <<>>, idx |-> 0]
ConcIdle ==
    [calls |-> [c \in 1..2 |-> NoCall], disk |-> {}, dirs |-> {}, owner |-> {},
     touched |-> {}]

SpIdle ==
    [run |-> 0, op |-> "none", sizes |-> <<>>, target |-> 0, maxp |-> 1, pc |-> "idle",
     temp_dir |-> 0, page_num |-> 0, current_chunk_pages |-> <<>>, chunk_num |-> 0,
     trial_num |-> 0, chunks |-> <<>>, closed |-> FALSE, disk |-> {}, dirs |-> {},
     outs |-> <<>>]
XtNoCall == [pc |-> "idle", src |-> 0, result |-> "pending"]
XtIdle == [calls |-> [c \in 1..2 |-> XtNoCall], disk |-> {}, touched |-> {}]

\* What process_file_with_ocr returns when file_path does not exist: a variant
\* returning an empty string, and the code's None.
missing_file_result_empty == [kind |-> "text", text |-> <<>>]
missing_file_result == [kind |-> "None", text |-> <<>>]

Init ==
    /\ file \in Files
    /\ pc = "start"
    /\ info = NoInfo
    /\ strategy = "unset"
    /\ split_failed = FALSE
    /\ chunks = <<>>
    /\ i = 0
    /\ all_text = <<>>
    /\ ocr_log = <<>>
    /\ combined_text = <<>>
    /\ disk = IF file.exists THEN {FilePath(file)} ELSE {}
    /\ dirs = {}
    /\ created = {}
    /\ undeletable = {}
    /\ result = NoResult
    /\ fn = FnIdle
    /\ ocr = OcrIdle
    /\ conc = ConcIdle
    /\ sp = SpIdle
    /\ xt = XtIdle

\* ----------------------------------------------------------- inspection
\* process_file_with_ocr up to needs_splitting: the existence check,
\* get_file_info and needs_splitting.
Inspect ==
    /\ pc = "start"
    /\ IF FilePath(file) \notin disk
       THEN /\ result' = missing_file_result
            /\ pc' = "done"
            /\ UNCHANGED info
       ELSE LET fi == get_file_info(file)
                ns == needs_splitting(fi.file_size, fi.page_count)
            IN  /\ info' = [file_size |-> fi.file_size, page_count |-> fi.page_count,
                            size_exceeds |-> ns.size_exceeds,
                            pages_exceed |-> ns.pages_exceed]
                /\ pc' = "select"
                /\ UNCHANGED result
    /\ UNCHANGED <<file, strategy, split_failed, chunks, i, all_text, ocr_log,
                   combined_text, disk, dirs, created, undeletable, fn, ocr, conc, sp, xt>>

\* -------------------------------------------------------------- splitters
\* A chunk file chunk_<k>.pdf holding the listed pages.
PdfChunk(chunk_num, pages) == [path |-> ChunkPath(chunk_num), pages |-> pages, quality |-> 0]

\* What a PDF splitter can do, given the page lists it would write and the
\* file operations it would make: all of them, returning the chunks; or an
\* exception (fitz.open, a save or an os.remove part-way, or what follows the
\* last save: that save raising once the file is there, chunk_doc.close(),
\* doc.close()) caught by returning [file_path], the operations made before it
\* standing: the chunk files saved, and the trial file when it was not yet
\* removed, stay where they are.
PdfSplitOutcomes(f, lists, ops) ==
    LET all == [k \in 1..Len(lists) |-> PdfChunk(k - 1, lists[k])]
        ok == [chunks |-> all, ops |-> ops, written |-> FilesWritten(ops),
               left |-> FilesLeft(ops), failed |-> FALSE]
        caught(done) ==
            LET made == SubSeq(ops, 1, done)
            IN  [chunks |-> <<SourceChunk(f)>>,
                 ops |-> made, written |-> FilesWritten(made),
                 left |-> FilesLeft(made), failed |-> TRUE]
    IN  IF ~f.fitz_ok THEN {caught(0)}
        ELSE {ok} \cup {caught(done) : done \in 0..Len(ops)}

\* split_image_by_size: the original path when the image is within the limit,
\* one re-encoded JPEG otherwise; [file_path] when an exception is caught,
\* before the save (Image.open, getsize, convert, a save that writes nothing)
\* or after img.save wrote compressed_<name> (the save raising once the file
\* is there, or the exit of the with block), the file then staying.
ImageSplitOutcomes(f, target_size_bytes) ==
    LET current_size == getsize(f)
        unchanged == [chunks |-> <<SourceChunk(f)>>, ops |-> <<>>, written |-> {},
                      left |-> {}, failed |-> FALSE]
        caught == [chunks |-> <<SourceChunk(f)>>, ops |-> <<>>, written |-> {},
                   left |-> {}, failed |-> TRUE]
        caught_after_save ==
            [chunks |-> <<SourceChunk(f)>>, ops |-> <<Write(CompressedPath(f))>>,
             written |-> {CompressedPath(f)}, left |-> {CompressedPath(f)},
             failed |-> TRUE]
        compressed ==
            [chunks |-> <<[path |-> CompressedPath(f), pages |-> <<0>>,
                           quality |-> image_quality(current_size, target_size_bytes)]>>,
             ops |-> <<Write(CompressedPath(f))>>, written |-> {CompressedPath(f)},
             left |-> {CompressedPath(f)}, failed |-> FALSE]
    IN  IF current_size <= target_size_bytes THEN {unchanged, caught}
        ELSE {compressed, caught, caught_after_save}

SplitOutcomes(f, s) ==
    CASE s = "pages" ->
            LET lists == split_pdf_by_pages(Len(f.pages), max_pages)
            IN  PdfSplitOutcomes(f, lists, split_pdf_by_pages_ops(lists))
      [] s = "size" ->
            PdfSplitOutcomes(f, split_pdf_by_size(f.pages, max_size_bytes),
                             split_pdf_by_size_ops(f.pages, max_size_bytes))
      [] s = "image" -> ImageSplitOutcomes(f, max_size_bytes)
      [] OTHER -> {}

\* The selector of process_file_with_ocr when no limit is exceeded (or no
\* branch applies): chunks stays [file_path].
NoSplit ==
    /\ pc = "select"
    /\ select_strategy(file.ext, info.size_exceeds, info.pages_exceed) = "none"
    /\ strategy' = "none"
    /\ chunks' = <<SourceChunk(file)>>
    /\ i' = 1
    /\ pc' = "ocr"
    /\ UNCHANGED <<file, info, split_failed, all_text, ocr_log, combined_text,
                   disk, dirs, created, undeletable, result, fn, ocr, conc, sp, xt>>

\* The selector calling a splitter, which makes its temporary directory and
\* returns its chunk list.
Split ==
    /\ pc = "select"
    /\ LET s == select_strategy(file.ext, info.size_exceeds, info.pages_exceed)
       IN  /\ s # "none"
           /\ strategy' = s
           /\ \E o \in SplitOutcomes(file, s) :
                /\ chunks' = o.chunks
                /\ split_failed' = o.failed
                /\ disk' = disk \cup o.left
                /\ created' = created \cup o.written
    /\ dirs' = dirs \cup {TempDir}
    /\ i' = 1
    /\ pc' = "ocr"
    /\ UNCHANGED <<file, info, all_text, ocr_log, combined_text, undeletable, result, fn, ocr, conc, sp, xt>>

\* tempfile.mkdtemp, called before the splitter's try block, raises: the
\* exception leaves process_file_with_ocr.
SplitRaises ==
    /\ pc = "select"
    /\ LET s == select_strategy(file.ext, info.size_exceeds, info.pages_exceed)
       IN  /\ s # "none"
           /\ strategy' = s
    /\ result' = [kind |-> "raise", text |-> <<>>]
    /\ pc' = "done"
    /\ UNCHANGED <<file, info, split_failed, chunks, i, all_text, ocr_log,
                   combined_text, disk, dirs, created, undeletable, fn, ocr, conc, sp, xt>>

\* ---------------------------------------------------------------- OCR loop
\* Whether the loop keeps a text: if text and text.strip()
keeps_any(text) == text # <<>>
keeps(text) == text # <<>> /\ strip(text) # <<>>

\* What the loop appends for a kept text.
kept_text_stripped(text) == strip(text)
kept_text(text) == text

\* Where the loop goes after the except block of an iteration: the next chunk.
after_ocr_exception_break(index, n) == n + 1
after_ocr_exception(index, n) == index + 1

\* The list the OCR loop walks: enumerate(chunks), every chunk of the list.
ocr_queue_within_limits(chunk_list, f) ==
    SelectSeq(chunk_list, LAMBDA c : pdf_size(c.pages, f.pages) <= max_size_bytes)
ocr_queue(chunk_list, f) == chunk_list

\* A variant of the loop body that removes the chunk file once it has its text.
OcrChunk_eager ==
    /\ pc = "ocr"
    /\ i <= Len(ocr_queue(chunks, file))
    /\ \E kind \in OcrKinds :
         LET chunk == ocr_queue(chunks, file)[i]
             raised == kind = "raise" \/ chunk.path \notin disk
             text == IF raised THEN <<>> ELSE OcrText(kind, chunk)
         IN  /\ ocr_log' = Append(ocr_log,
                    [index |-> i, path |-> chunk.path, raised |-> raised, text |-> text,
                     mime |-> get_mime_type(chunk.path.ext)])
             /\ all_text' = IF ~raised /\ keeps(text)
                            THEN Append(all_text, kept_text(text))
                            ELSE all_text
             /\ i' = IF raised THEN after_ocr_exception(i, Len(chunks)) ELSE i + 1
             /\ disk' = IF chunk.path # FilePath(file) THEN disk \ {chunk.path} ELSE disk
    /\ UNCHANGED <<file, pc, info, strategy, split_failed, chunks, combined_text,
                   dirs, created, undeletable, result, fn, ocr, conc, sp, xt>>

\* One iteration of the loop over enumerate(chunks).
OcrChunk ==
    /\ pc = "ocr"
    /\ i <= Len(ocr_queue(chunks, file))
    /\ \E kind \in OcrKinds :
         LET chunk == ocr_queue(chunks, file)[i]
             raised == kind = "raise" \/ chunk.path \notin disk
             text == IF raised THEN <<>> ELSE OcrText(kind, chunk)
         IN  /\ ocr_log' = Append(ocr_log,
                    [index |-> i, path |-> chunk.path, raised |-> raised, text |-> text,
                     mime |-> get_mime_type(chunk.path.ext)])
             /\ all_text' = IF ~raised /\ keeps(text)
                            THEN Append(all_text, kept_text(text))
                            ELSE all_text
             /\ i' = IF raised THEN after_ocr_exception(i, Len(chunks)) ELSE i + 1
    /\ UNCHANGED <<file, pc, info, strategy, split_failed, chunks, combined_text,
                   disk, dirs, created, undeletable, result, fn, ocr, conc, sp, xt>>

\* After the loop: combined_text = '\n'.join(all_text)
Combine ==
    /\ pc = "ocr"
    /\ i > Len(ocr_queue(chunks, file))
    /\ combined_text' = join(all_text)
    /\ i' = 1
    /\ pc' = "cleanup"
    /\ UNCHANGED <<file, info, strategy, split_failed, chunks, all_text, ocr_log,
                   disk, dirs, created, undeletable, result, fn, ocr, conc, sp, xt>>

\* ----------------------------------------------------------------- cleanup
\* Whether the cleanup loop tries to remove a chunk path.
removable_any(chunk_path, file_path) == chunk_path \in disk
removable(chunk_path, file_path) == chunk_path # file_path /\ chunk_path \in disk

\* os.path.dirname(chunk_path), as a path.
DirPath(d) == [dir |-> d, kind |-> "dir", num |-> 0, ext |-> ""]

\* Where the cleanup loop goes after its except block: the next chunk.
after_cleanup_exception_break(index, n) == n + 1
after_cleanup_exception(index, n) == index + 1

\* One iteration of the cleanup loop: os.remove (which may raise, caught),
\* then os.rmdir of the chunk's directory (which fails while it holds a file,
\* and may fail otherwise; ignored either way).
CleanupChunk ==
    /\ pc = "cleanup"
    /\ i <= Len(chunks)
    /\ LET chunk_path == chunks[i].path
       IN  IF removable(chunk_path, FilePath(file))
           THEN \E removed \in BOOLEAN, rmdir_ok \in BOOLEAN :
                  IF removed
                  THEN /\ disk' = disk \ {chunk_path}
                       /\ IF /\ chunk_path.dir # FilePath(file).dir
                             /\ \A p \in disk' : p.dir # chunk_path.dir
                          THEN IF rmdir_ok
                               THEN /\ dirs' = dirs \ {chunk_path.dir}
                                    /\ UNCHANGED undeletable
                               ELSE /\ undeletable' =
                                          undeletable \cup {DirPath(chunk_path.dir)}
                                    /\ UNCHANGED dirs
                          ELSE /\ rmdir_ok
                               /\ UNCHANGED <<dirs, undeletable>>
                       /\ i' = i + 1
                  ELSE /\ rmdir_ok
                       /\ undeletable' = undeletable \cup {chunk_path}
                       /\ i' = after_cleanup_exception(i, Len(chunks))
                       /\ UNCHANGED <<disk, dirs>>
           ELSE /\ i' = i + 1
                /\ UNCHANGED <<disk, dirs, undeletable>>
    /\ UNCHANGED <<file, pc, info, strategy, split_failed, chunks, all_text, ocr_log,
                   combined_text, created, result, fn, ocr, conc, sp, xt>>

\* return combined_text
Return ==
    /\ pc = "cleanup"
    /\ i > Len(chunks)
    /\ result' = [kind |-> "text", text |-> combined_text]
    /\ pc' = "done"
    /\ UNCHANGED <<file, info, strategy, split_failed, chunks, i, all_text, ocr_log,
                   combined_text, disk, dirs, created, undeletable, fn, ocr, conc, sp, xt>>

Next ==
    \/ Inspect
    \/ NoSplit
    \/ Split
    \/ SplitRaises
    \/ OcrChunk
    \/ Combine
    \/ CleanupChunk
    \/ Return

Spec == Init /\ [][Next]_vars

\* ------------------------------------------------ the splitters on their own
\* split_pdf_by_pages and split_pdf_by_size called directly, on any document
\* of Docs, with any max_pages of 1..MaxFnPages and any target of FnTargets.
FnTargets == {2 * MiB, 7 * MiB, max_size_bytes}

InitFn ==
    /\ fn \in [op : {"none"}, sizes : Docs, maxp : 1..MaxFnPages, target : FnTargets,
                called : {FALSE}, out : {<<>>}, paths : {<<>>}, quality : {0},
                written : {{}}, failed : {FALSE}, raised : {FALSE}]
    /\ file = MissingFile
    /\ pc = "idle"
    /\ info = NoInfo
    /\ strategy = "unset"
    /\ split_failed = FALSE
    /\ chunks = <<>>
    /\ i = 0
    /\ all_text = <<>>
    /\ ocr_log = <<>>
    /\ combined_text = <<>>
    /\ disk = {}
    /\ dirs = {}
    /\ created = {}
    /\ undeletable = {}
    /\ result = NoResult
    /\ ocr = OcrIdle
    /\ conc = ConcIdle
    /\ sp = SpIdle
    /\ xt = XtIdle

mainvars == <<file, pc, info, strategy, split_failed, chunks, i, all_text, ocr_log,
              combined_text, undeletable, result, ocr, conc, sp, xt>>

\* The PDF file and the image file whose pages (whose bytes) are the listed sizes.
PdfOf(sizes) ==
    [exists |-> TRUE, ext |-> ".pdf", pages |-> sizes, overhead |-> 0,
     fitz_ok |-> TRUE, pypdf_ok |-> TRUE, converted |-> FALSE]
ImageOf(sizes) ==
    [exists |-> TRUE, ext |-> ".png", pages |-> sizes, overhead |-> 0,
     fitz_ok |-> TRUE, pypdf_ok |-> TRUE, converted |-> FALSE]

\* A splitter returns: the list it returns (its chunks, or [file_path] after a
\* caught exception), the files it leaves and the directory mkdtemp made, which
\* it never removes. disk, dirs and created hold what the call adds.
FnReturns(op, o) ==
    /\ fn' = [fn EXCEPT !.op = op, !.called = TRUE,
                        !.out = [k \in 1..Len(o.chunks) |-> o.chunks[k].pages],
                        !.paths = [k \in 1..Len(o.chunks) |-> o.chunks[k].path],
                        !.quality = IF o.chunks # <<>> THEN o.chunks[1].quality ELSE 0,
                        !.written = o.written,
                        !.failed = o.failed]
    /\ disk' = disk \cup o.left
    /\ created' = created \cup o.written
    /\ dirs' = dirs \cup {TempDir}

\* tempfile.mkdtemp(), called before the try block, raises: so does the splitter.
FnRaises(op) ==
    /\ fn' = [fn EXCEPT !.op = op, !.called = TRUE, !.raised = TRUE]
    /\ UNCHANGED <<disk, dirs, created>>

\* split_pdf_by_pages(file_path, max_pages) called directly.
CallSplitPages ==
    /\ ~fn.called
    /\ LET lists == split_pdf_by_pages(Len(fn.sizes), fn.maxp)
       IN  \/ \E o \in PdfSplitOutcomes(PdfOf(fn.sizes), lists,
                                        split_pdf_by_pages_ops(lists)) :
                 FnReturns("pages", o)
           \/ FnRaises("pages")
    /\ UNCHANGED mainvars

\* split_pdf_by_size(file_path, target_size_bytes) called directly.
CallSplitSize ==
    /\ ~fn.called
    /\ \/ \E o \in PdfSplitOutcomes(PdfOf(fn.sizes),
                                    split_pdf_by_size(fn.sizes, fn.target),
                                    split_pdf_by_size_ops(fn.sizes, fn.target)) :
             FnReturns("size", o)
       \/ FnRaises("size")
    /\ UNCHANGED mainvars

\* split_image_by_size called directly on an image of any size.
CallSplitImage ==
    /\ ~fn.called
    /\ Len(fn.sizes) >= 1
    /\ \/ \E o \in ImageSplitOutcomes(ImageOf(fn.sizes), fn.target) :
             FnReturns("image", o)
       \/ FnRaises("image")
    /\ UNCHANGED mainvars

NextFn ==
    \/ CallSplitPages
    \/ CallSplitSize
    \/ CallSplitImage

SpecFn == InitFn /\ [][NextFn]_vars

\* ------------------------------------------------ DocumentOCR.extract_text
\* The limits DocumentOCR sets for itself.
ocr_max_size_mb == 10
ocr_max_pages == 10
ocr_max_size_bytes == ocr_max_size_mb * 1024 * 1024

\* DocumentOCR.is_pdf_or_image, and a variant accepting every extension.
supported_extensions ==
    {".pdf", ".png", ".jpg", ".jpeg", ".gif", ".webp", ".bmp", ".tiff", ".tif"}
is_pdf_or_image_any(extension) == TRUE
is_pdf_or_image(extension) == extension \in supported_extensions

\* FileConverter.is_convertible
supported_formats == {".docx", ".doc", ".xlsx", ".xls", ".csv", ".txt", ".pptx", ".ppt"}
is_convertible(extension) == extension \in supported_formats

\* get_mime_type(file_path) in supported_mime_types
mime_supported(extension) == extension \in supported_extensions

\* DocumentOCR.get_page_count: the count of fitz for any file it opens, else 1.
get_page_count(f) == IF f.fitz_ok THEN Len(f.pages) ELSE 1

\* DocumentOCR.check_file_limits
check_file_limits(f) ==
    [file_size |-> getsize(f), page_count |-> get_page_count(f),
     size_exceeds |-> getsize(f) > ocr_max_size_bytes,
     pages_exceed |-> get_page_count(f) > ocr_max_pages]

\* Files handed to extract_text: those of Files, office documents that
\* convert to the PDF of their pages, and a file of an unknown format.
DocxFiles ==
    {[exists |-> TRUE, ext |-> ".docx", pages |-> d, overhead |-> 0,
      fitz_ok |-> FALSE, pypdf_ok |-> FALSE, converted |-> FALSE] :
        d \in {x \in Docs : Len(x) >= 1}}
UnsupportedFile ==
    [exists |-> TRUE, ext |-> ".xyz", pages |-> <<3 * MiB>>, overhead |-> 0,
     fitz_ok |-> FALSE, pypdf_ok |-> FALSE, converted |-> FALSE]
OcrSources == Files \cup DocxFiles \cup {UnsupportedFile}

\* The PDF that FileConverter.convert_to_pdf writes for a source file.
Converted(f) ==
    [f EXCEPT !.ext = ".pdf", !.converted = TRUE, !.fitz_ok = TRUE, !.pypdf_ok = TRUE]

Raised == [kind |-> "raise", text |-> <<>>]

InitOcr ==
    /\ ocr \in {[OcrIdle EXCEPT !.pc = "start", !.source = f] : f \in OcrSources}
    /\ file = ocr.source
    /\ pc = "idle"
    /\ info = NoInfo
    /\ strategy = "unset"
    /\ split_failed = FALSE
    /\ chunks = <<>>
    /\ i = 0
    /\ all_text = <<>>
    /\ ocr_log = <<>>
    /\ combined_text = <<>>
    /\ disk = IF ocr.source.exists THEN {FilePath(ocr.source)} ELSE {}
    /\ dirs = {}
    /\ created = {}
    /\ undeletable = {}
    /\ result = NoResult
    /\ fn = FnIdle
    /\ conc = ConcIdle
    /\ sp = SpIdle
    /\ xt = XtIdle

\* extract_text up to the try block: the existence check and
\* prepare_file_for_ocr (conversion may fail, and may leave its output file).
ExtractText_Prepare ==
    /\ ocr.pc = "start"
    /\ LET src == ocr.source
       IN  IF FilePath(src) \notin disk
           THEN /\ ocr' = [ocr EXCEPT !.pc = "done", !.result = Raised,
                                      !.error = "FileNotFoundError"]
                /\ UNCHANGED <<file, disk>>
           ELSE IF is_pdf_or_image(src.ext)
           THEN /\ ocr' = [ocr EXCEPT !.pc = "prepared", !.is_temporary = FALSE]
                /\ file' = src
                /\ UNCHANGED disk
           ELSE IF ~is_convertible(src.ext)
           THEN /\ ocr' = [ocr EXCEPT !.pc = "done", !.result = Raised,
                                      !.error = "ValueError"]
                /\ UNCHANGED <<file, disk>>
           ELSE \E converted_ok \in BOOLEAN, written \in BOOLEAN :
                  IF converted_ok
                  THEN /\ written
                       /\ ocr' = [ocr EXCEPT !.pc = "prepared", !.is_temporary = TRUE]
                       /\ file' = Converted(src)
                       /\ disk' = disk \cup {FilePath(Converted(src))}
                  ELSE /\ ocr' = [ocr EXCEPT !.pc = "done", !.result = Raised,
                                             !.error = "Exception"]
                       /\ disk' = IF written THEN disk \cup {FilePath(Converted(src))}
                                  ELSE disk
                       /\ UNCHANGED file
    /\ UNCHANGED <<pc, info, strategy, split_failed, chunks, i, all_text, ocr_log,
                   combined_text, dirs, created, undeletable, result, fn, conc, sp, xt>>

\* What the direct branch gives extract_text's caller: the exception of
\* extract_text_from_single_file, or its text as returned. First a variant
\* that treats the call as process_file_with_ocr treats a chunk.
direct_outcome_swallow(raised, text) ==
    IF raised \/ ~keeps(text) THEN [kind |-> "text", text |-> <<>>]
    ELSE [kind |-> "text", text |-> text]
direct_outcome(raised, text) ==
    IF raised THEN Raised ELSE [kind |-> "text", text |-> text]

\* The try block of extract_text: check_file_limits, then either the call of
\* process_file_with_ocr or the direct call of extract_text_from_single_file.
ExtractText_Dispatch ==
    /\ ocr.pc = "prepared"
    /\ LET lim == check_file_limits(file)
       IN  IF lim.size_exceeds \/ lim.pages_exceed
           THEN /\ ocr' = [ocr EXCEPT !.pc = "delegated", !.limits = lim]
                /\ pc' = "start"
           ELSE /\ \E kind \in OcrKinds :
                     LET raised == kind = "raise" \/ ~mime_supported(file.ext)
                         text == IF raised THEN <<>> ELSE OcrText(kind, SourceChunk(file))
                     IN  ocr' = [ocr EXCEPT
                                   !.pc = "finally", !.limits = lim,
                                   !.direct = Append(@, [path |-> FilePath(file),
                                                raised |-> raised, text |-> text,
                                                mime |-> get_mime_type(file.ext)]),
                                   !.outcome = direct_outcome(raised, text),
                                   !.error = IF raised THEN "ocr" ELSE @]
                /\ UNCHANGED pc
    /\ UNCHANGED <<file, info, strategy, split_failed, chunks, i, all_text, ocr_log,
                   combined_text, disk, dirs, created, undeletable, result, fn, conc, sp, xt>>

\* return combined_text, with what process_file_with_ocr returned or raised.
ExtractText_Delegated ==
    /\ ocr.pc = "delegated"
    /\ pc = "done"
    /\ ocr' = [ocr EXCEPT !.pc = "finally", !.outcome = result,
                          !.error = IF result.kind = "raise" THEN "mkdtemp" ELSE @]
    /\ UNCHANGED <<file, pc, info, strategy, split_failed, chunks, i, all_text, ocr_log,
                   combined_text, disk, dirs, created, undeletable, result, fn, conc, sp, xt>>

\* The finally block: the converted file is removed (os.remove may fail).
\* First a variant that cleans up only after a normal return.
ExtractText_Finally_on_return ==
    /\ ocr.pc = "finally"
    /\ IF ocr.is_temporary /\ FilePath(file) \in disk /\ ocr.outcome.kind # "raise"
       THEN \E removed \in BOOLEAN :
              /\ disk' = IF removed THEN disk \ {FilePath(file)} ELSE disk
              /\ ocr' = [ocr EXCEPT !.pc = "done", !.result = ocr.outcome,
                                    !.cleanup = IF removed THEN "removed" ELSE "failed"]
       ELSE /\ UNCHANGED disk
            /\ ocr' = [ocr EXCEPT !.pc = "done", !.result = ocr.outcome]
    /\ UNCHANGED <<file, pc, info, strategy, split_failed, chunks, i, all_text, ocr_log,
                   combined_text, dirs, created, undeletable, result, fn, conc, sp, xt>>
ExtractText_Finally ==
    /\ ocr.pc = "finally"
    /\ IF ocr.is_temporary /\ FilePath(file) \in disk
       THEN \E removed \in BOOLEAN :
              /\ disk' = IF removed THEN disk \ {FilePath(file)} ELSE disk
              /\ ocr' = [ocr EXCEPT !.pc = "done", !.result = ocr.outcome,
                                    !.cleanup = IF removed THEN "removed" ELSE "failed"]
       ELSE /\ UNCHANGED disk
            /\ ocr' = [ocr EXCEPT !.pc = "done", !.result = ocr.outcome]
    /\ UNCHANGED <<file, pc, info, strategy, split_failed, chunks, i, all_text, ocr_log,
                   combined_text, dirs, created, undeletable, result, fn, conc, sp, xt>>

NextOcr ==
    \/ ExtractText_Prepare
    \/ ExtractText_Dispatch
    \/ ExtractText_Delegated
    \/ ExtractText_Finally
    \/ Inspect
    \/ NoSplit
    \/ Split
    \/ SplitRaises
    \/ OcrChunk
    \/ Combine
    \/ CleanupChunk
    \/ Return

SpecOcr == InitOcr /\ [][NextOcr]_vars

\* --------------------------------- two calls of process_file_with_ocr at once
\* The documents of the two calls: a PDF over the size limit, a PDF over the
\* page limit, an image over the size limit and a PDF within both limits.
TwoDocs ==
    <<[exists |-> TRUE, ext |-> ".pdf", pages |-> <<7 * MiB, 7 * MiB>>, overhead |-> 0,
       fitz_ok |-> TRUE, pypdf_ok |-> TRUE, converted |-> FALSE],
      [exists |-> TRUE, ext |-> ".pdf", pages |-> [k \in 1..(max_pages + 1) |-> 1 * MiB],
       overhead |-> 0, fitz_ok |-> TRUE, pypdf_ok |-> TRUE, converted |-> FALSE],
      [exists |-> TRUE, ext |-> ".png", pages |-> <<11 * MiB>>, overhead |-> 0,
       fitz_ok |-> TRUE, pypdf_ok |-> TRUE, converted |-> FALSE],
      [exists |-> TRUE, ext |-> ".pdf", pages |-> <<3 * MiB>>, overhead |-> 0,
       fitz_ok |-> TRUE, pypdf_ok |-> TRUE, converted |-> FALSE]>>

\* file_path of a call: one path per document.
TwoPath(doc) == [FilePath(TwoDocs[doc]) EXCEPT !.num = doc]

\* tempfile.mkdtemp(): a directory that does not exist yet (directories above
\* SysTempDir are those it makes here); first a variant that hands every call
\* the same directory.
mkdtemp_shared(existing) == SysTempDir + 1
mkdtemp(existing) ==
    CHOOSE d \in (SysTempDir + 1)..(SysTempDir + 1 + Cardinality(existing)) :
        d \notin existing

\* os.path.join(temp_dir, name) for a chunk path of the one-call model.
InDir(path, d) == [path EXCEPT !.dir = d]

\* The file operations of a splitter, on the paths of its own directory.
OpsInDir(ops, d) == [k \in 1..Len(ops) |-> [ops[k] EXCEPT !.path = InDir(@, d)]]

\* The call that wrote the file now at a path, 0 for none.
OwnerOf(path) ==
    IF \E o \in conc.owner : o[1] = path
    THEN (CHOOSE o \in conc.owner : o[1] = path)[2]
    ELSE 0
Touch(c, op, path) == [call |-> c, op |-> op, path |-> path, owner |-> OwnerOf(path)]

nonconc == <<file, pc, info, strategy, split_failed, chunks, i, all_text, ocr_log,
             combined_text, disk, dirs, created, undeletable, result, fn, ocr, sp, xt>>

InitTwo ==
    /\ conc \in {[ConcIdle EXCEPT
                    !.calls = [c \in 1..2 |-> [NoCall EXCEPT !.pc = "start", !.doc = d[c]]],
                    !.disk = {TwoPath(d[c]) : c \in 1..2}] :
                 d \in [1..2 -> 1..Len(TwoDocs)]}
    /\ file = MissingFile
    /\ pc = "idle"
    /\ info = NoInfo
    /\ strategy = "unset"
    /\ split_failed = FALSE
    /\ chunks = <<>>
    /\ i = 0
    /\ all_text = <<>>
    /\ ocr_log = <<>>
    /\ combined_text = <<>>
    /\ disk = {}
    /\ dirs = {}
    /\ created = {}
    /\ undeletable = {}
    /\ result = NoResult
    /\ fn = FnIdle
    /\ ocr = OcrIdle
    /\ sp = SpIdle
    /\ xt = XtIdle

\* Inspection, selection and the start of the splitter: mkdtemp (which may
\* raise) and the choice of the file operations the splitter will make and of
\* what it will return.
TwoSelect(c) ==
    LET call == conc.calls[c]
        f == TwoDocs[call.doc]
        fi == get_file_info(f)
        ns == needs_splitting(fi.file_size, fi.page_count)
        s == select_strategy(f.ext, ns.size_exceeds, ns.pages_exceed)
    IN  /\ call.pc = "start"
        /\ IF s = "none"
           THEN conc' = [conc EXCEPT !.calls[c].pc = "ocr",
                                     !.calls[c].chunks = <<TwoPath(call.doc)>>,
                                     !.calls[c].idx = 1]
           ELSE \E made \in BOOLEAN :
                  IF ~made
                  THEN conc' = [conc EXCEPT !.calls[c].pc = "done"]
                  ELSE LET d == mkdtemp(conc.dirs)
                       IN  \E o \in SplitOutcomes(f, s) :
                             conc' = [conc EXCEPT
                                 !.dirs = @ \cup {d},
                                 !.calls[c].pc = "split",
                                 !.calls[c].dir = d,
                                 !.calls[c].pending = OpsInDir(o.ops, d),
                                 !.calls[c].chunks =
                                     [k \in 1..Len(o.chunks) |->
                                         IF o.chunks[k].path = FilePath(f)
                                         THEN TwoPath(call.doc)
                                         ELSE InDir(o.chunks[k].path, d)]]
        /\ UNCHANGED nonconc

\* The splitter saves its next file: a trial file or a chunk file.
TwoWrite(c) ==
    LET call == conc.calls[c]
    IN  /\ call.pc = "split"
        /\ call.pending # <<>>
        /\ Head(call.pending).op = "write"
        /\ LET path == Head(call.pending).path
           IN  conc' = [conc EXCEPT
                   !.disk = @ \cup {path},
                   !.owner = {o \in @ : o[1] # path} \cup {<<path, c>>},
                   !.touched = @ \cup {Touch(c, "write", path)},
                   !.calls[c].pending = Tail(@)]
        /\ UNCHANGED nonconc

\* The splitter removes its trial file: os.remove(temp_pdf_path), which raises
\* when the file is gone, the except block then returning [file_path].
TwoRemoveTrial(c) ==
    LET call == conc.calls[c]
    IN  /\ call.pc = "split"
        /\ call.pending # <<>>
        /\ Head(call.pending).op = "remove"
        /\ LET path == Head(call.pending).path
           IN  IF path \in conc.disk
               THEN conc' = [conc EXCEPT
                       !.disk = @ \ {path},
                       !.owner = {o \in @ : o[1] # path},
                       !.touched = @ \cup {Touch(c, "remove", path)},
                       !.calls[c].pending = Tail(@)]
               ELSE conc' = [conc EXCEPT
                       !.calls[c].pending = <<>>,
                       !.calls[c].chunks = <<TwoPath(call.doc)>>]
        /\ UNCHANGED nonconc

\* The splitter returns its chunk list.
TwoSplitDone(c) ==
    LET call == conc.calls[c]
    IN  /\ call.pc = "split"
        /\ call.pending = <<>>
        /\ conc' = [conc EXCEPT !.calls[c].pc = "ocr", !.calls[c].idx = 1]
        /\ UNCHANGED nonconc

\* One pass of the OCR loop: the chunk file is read if it is there.
TwoOcr(c) ==
    LET call == conc.calls[c]
    IN  /\ call.pc = "ocr"
        /\ call.idx <= Len(call.chunks)
        /\ LET path == call.chunks[call.idx]
           IN  conc' = [conc EXCEPT
                   !.touched = IF path \in conc.disk
                               THEN @ \cup {Touch(c, "read", path)} ELSE @,
                   !.calls[c].idx = @ + 1]
        /\ UNCHANGED nonconc

TwoCombine(c) ==
    LET call == conc.calls[c]
    IN  /\ call.pc = "ocr"
        /\ call.idx > Len(call.chunks)
        /\ conc' = [conc EXCEPT !.calls[c].pc = "cleanup", !.calls[c].idx = 1]
        /\ UNCHANGED nonconc

\* One pass of the cleanup loop (os.remove and os.rmdir may fail).
TwoCleanup(c) ==
    LET call == conc.calls[c]
    IN  /\ call.pc = "cleanup"
        /\ call.idx <= Len(call.chunks)
        /\ LET path == call.chunks[call.idx]
               left == conc.disk \ {path}
           IN  IF path # TwoPath(call.doc) /\ path \in conc.disk
               THEN \E removed \in BOOLEAN, rmdir_ok \in BOOLEAN :
                      IF removed
                      THEN IF /\ path.dir # TwoPath(call.doc).dir
                              /\ \A p \in left : p.dir # path.dir
                              /\ rmdir_ok
                           THEN conc' = [conc EXCEPT
                                   !.disk = left,
                                   !.owner = {o \in @ : o[1] # path},
                                   !.touched = @ \cup {Touch(c, "remove", path)},
                                   !.dirs = @ \ {path.dir},
                                   !.calls[c].dir = 0,
                                   !.calls[c].idx = @ + 1]
                           ELSE conc' = [conc EXCEPT
                                   !.disk = left,
                                   !.owner = {o \in @ : o[1] # path},
                                   !.touched = @ \cup {Touch(c, "remove", path)},
                                   !.calls[c].idx = @ + 1]
                      ELSE /\ rmdir_ok
                           /\ conc' = [conc EXCEPT !.calls[c].idx = @ + 1]
               ELSE conc' = [conc EXCEPT !.calls[c].idx = @ + 1]
        /\ UNCHANGED nonconc

TwoReturn(c) ==
    LET call == conc.calls[c]
    IN  /\ call.pc = "cleanup"
        /\ call.idx > Len(call.chunks)
        /\ conc' = [conc EXCEPT !.calls[c].pc = "done"]
        /\ UNCHANGED nonconc

NextTwo ==
    \/ \E c \in 1..2 : TwoSelect(c)
    \/ \E c \in 1..2 : TwoWrite(c)
    \/ \E c \in 1..2 : TwoRemoveTrial(c)
    \/ \E c \in 1..2 : TwoSplitDone(c)
    \/ \E c \in 1..2 : TwoOcr(c)
    \/ \E c \in 1..2 : TwoCombine(c)
    \/ \E c \in 1..2 : TwoCleanup(c)
    \/ \E c \in 1..2 : TwoReturn(c)

SpecTwo == InitTwo /\ [][NextTwo]_vars

\* ----------------------------- a splitter step by step, run twice in sequence
\* split_pdf_by_size on the documents of SizedDocs with the targets of
\* FnTargets, split_pdf_by_pages on the documents of Docs with a max_pages of
\* 1..MaxFnPages; the second run starts on the disk the first one left.
nonsp == <<file, pc, info, strategy, split_failed, chunks, i, all_text, ocr_log,
           combined_text, disk, dirs, created, undeletable, result, fn, ocr, conc, xt>>

InitSplit ==
    /\ sp \in {[SpIdle EXCEPT !.run = 1, !.op = "size", !.pc = "start",
                              !.sizes = d, !.target = t] :
                  d \in SizedDocs, t \in FnTargets}
           \cup {[SpIdle EXCEPT !.run = 1, !.op = "pages", !.pc = "start",
                                !.sizes = d, !.maxp = m] :
                  d \in Docs, m \in 1..MaxFnPages}
    /\ file = MissingFile
    /\ pc = "idle"
    /\ info = NoInfo
    /\ strategy = "unset"
    /\ split_failed = FALSE
    /\ chunks = <<>>
    /\ i = 0
    /\ all_text = <<>>
    /\ ocr_log = <<>>
    /\ combined_text = <<>>
    /\ disk = {}
    /\ dirs = {}
    /\ created = {}
    /\ undeletable = {}
    /\ result = NoResult
    /\ fn = FnIdle
    /\ ocr = OcrIdle
    /\ conc = ConcIdle
    /\ xt = XtIdle

\* The locals of a splitter at the start of a call: chunks = [],
\* current_chunk_pages = [], chunk_num = 0.
run_start(s) ==
    [s EXCEPT !.page_num = 0, !.current_chunk_pages = <<>>, !.chunk_num = 0,
              !.trial_num = 0, !.chunks = <<>>, !.closed = FALSE]

\* The end of a call with the value it returned (or the exception of mkdtemp).
EndRun(s, out) ==
    [s EXCEPT !.outs = Append(@, out),
              !.pc = IF s.run = 2 THEN "done" ELSE "start",
              !.run = IF s.run = 2 THEN 2 ELSE s.run + 1]
\* return [file_path] of the except block
Fallback(s) == [kind |-> "fallback", lists |-> <<>>, paths |-> <<>>, dir |-> s.temp_dir]
\* return chunks
Returned(s, chunk_list) ==
    [kind |-> "chunks", lists |-> [k \in 1..Len(chunk_list) |-> chunk_list[k].pages],
     paths |-> [k \in 1..Len(chunk_list) |-> chunk_list[k].path], dir |-> s.temp_dir]

\* doc.save(path): the file at the path now holds the pages.
SpPath(d, kind, num) == [dir |-> d, kind |-> kind, num |-> num]
Save(files, path, pages) ==
    {f \in files : f.path # path} \cup {[path |-> path, pages |-> pages]}

\* temp_dir = tempfile.mkdtemp() (which may raise), then fitz.open(file_path)
\* (whose exception the except block turns into [file_path]).
SpStart ==
    /\ sp.pc = "start"
    /\ \E made \in BOOLEAN, opened \in BOOLEAN :
         IF ~made
         THEN /\ opened
              /\ sp' = EndRun(sp, [kind |-> "raise", lists |-> <<>>, paths |-> <<>>,
                                   dir |-> 0])
         ELSE LET d == mkdtemp(sp.dirs)
                  s == [run_start(sp) EXCEPT !.temp_dir = d, !.dirs = @ \cup {d}]
              IN  sp' = IF opened THEN [s EXCEPT !.pc = "loop"]
                        ELSE EndRun(s, Fallback(s))
    /\ UNCHANGED nonsp

\* split_pdf_by_size, lines 57-67: the page joins current_chunk_pages and the
\* trial file temp_chunk_<chunk_num>.pdf is saved.
SpTrial ==
    /\ sp.pc = "loop"
    /\ sp.op = "size"
    /\ sp.page_num < Len(sp.sizes)
    /\ \E saved \in BOOLEAN :
         LET pages == Append(sp.current_chunk_pages, sp.page_num)
             path == SpPath(sp.temp_dir, "trial", sp.chunk_num)
         IN  sp' = IF saved
                   THEN [sp EXCEPT !.current_chunk_pages = pages,
                                   !.trial_num = sp.chunk_num,
                                   !.disk = Save(@, path, pages),
                                   !.pc = "check"]
                   ELSE EndRun(sp, Fallback(sp))
    /\ UNCHANGED nonsp

\* Lines 70-86: the size of the trial file is read; when it is over the
\* target and holds more than one page, the pages before the last are saved
\* as chunk_<chunk_num>.pdf and the last page starts the next chunk.
SpCheck ==
    /\ sp.pc = "check"
    /\ LET trial == CHOOSE f \in sp.disk :
                        f.path = SpPath(sp.temp_dir, "trial", sp.trial_num)
           cur == sp.current_chunk_pages
       IN  IF pdf_size(trial.pages, sp.sizes) > sp.target /\ Len(cur) > 1
           THEN \E saved \in BOOLEAN :
                  LET popped == SubSeq(cur, 1, Len(cur) - 1)
                      path == SpPath(sp.temp_dir, "chunk", sp.chunk_num)
                  IN  sp' = IF saved
                            THEN [sp EXCEPT
                                    !.disk = Save(@, path, popped),
                                    !.chunks = Append(@, [path |-> path, pages |-> popped]),
                                    !.current_chunk_pages = <<sp.page_num>>,
                                    !.chunk_num = @ + 1,
                                    !.closed = TRUE,
                                    !.pc = "remove"]
                            ELSE EndRun(sp, Fallback(sp))
           ELSE sp' = [sp EXCEPT !.closed = FALSE, !.pc = "remove"]
    /\ UNCHANGED nonsp

\* Line 88: os.remove(temp_pdf_path), at the end of every pass. First a
\* variant that removes the trial file only in a pass that closed a chunk.
SpRemove_when_closed ==
    /\ sp.pc = "remove"
    /\ \E removed \in BOOLEAN :
         LET path == SpPath(sp.temp_dir, "trial", sp.trial_num)
         IN  sp' = IF ~sp.closed
                   THEN [sp EXCEPT !.page_num = @ + 1, !.pc = "loop"]
                   ELSE IF removed
                   THEN [sp EXCEPT !.disk = {f \in @ : f.path # path},
                                   !.page_num = @ + 1, !.pc = "loop"]
                   ELSE EndRun(sp, Fallback(sp))
    /\ UNCHANGED nonsp
SpRemove ==
    /\ sp.pc = "remove"
    /\ \E removed \in BOOLEAN :
         LET path == SpPath(sp.temp_dir, "trial", sp.trial_num)
         IN  sp' = IF removed
                   THEN [sp EXCEPT !.disk = {f \in @ : f.path # path},
                                   !.page_num = @ + 1, !.pc = "loop"]
                   ELSE EndRun(sp, Fallback(sp))
    /\ UNCHANGED nonsp

\* Lines 91-108: the remaining pages are saved as the last chunk, the
\* document is closed and the chunk list is returned; an exception of the save
\* before the file is there, or one after it (the save once the file is
\* written, chunk_doc.close(), doc.close()), is caught by returning [file_path].
SpFinal ==
    /\ sp.pc = "loop"
    /\ sp.op = "size"
    /\ sp.page_num >= Len(sp.sizes)
    /\ \E saved \in BOOLEAN, closed \in BOOLEAN :
         IF sp.current_chunk_pages # <<>>
         THEN LET path == SpPath(sp.temp_dir, "chunk", sp.chunk_num)
                  last == [path |-> path, pages |-> sp.current_chunk_pages]
                  s == [sp EXCEPT !.disk = Save(@, path, last.pages),
                                  !.chunks = Append(@, last)]
              IN  sp' = IF ~saved THEN EndRun(sp, Fallback(sp))
                        ELSE IF ~closed THEN EndRun(s, Fallback(s))
                        ELSE EndRun(s, Returned(s, s.chunks))
         ELSE /\ saved
              /\ sp' = IF closed THEN EndRun(sp, Returned(sp, sp.chunks))
                       ELSE EndRun(sp, Fallback(sp))
    /\ UNCHANGED nonsp

\* split_pdf_by_pages, lines 120-131: one pass of the loop over start_page
\* (held in page_num).
SpPagesChunk ==
    /\ sp.pc = "loop"
    /\ sp.op = "pages"
    /\ sp.page_num < Len(sp.sizes)
    /\ \E saved \in BOOLEAN :
         LET start_page == sp.page_num
             end_page == Min(start_page + sp.maxp - 1, Len(sp.sizes) - 1)
             path == SpPath(sp.temp_dir, "chunk", sp.chunk_num)
             pages == insert_pdf(start_page, end_page)
         IN  sp' = IF saved
                   THEN [sp EXCEPT !.disk = Save(@, path, pages),
                                   !.chunks = Append(@, [path |-> path, pages |-> pages]),
                                   !.chunk_num = @ + 1,
                                   !.page_num = start_page + sp.maxp]
                   ELSE EndRun(sp, Fallback(sp))
    /\ UNCHANGED nonsp

\* split_pdf_by_pages, lines 133-139: doc.close() and return chunks, or the
\* except block's [file_path] when what follows the last save raises.
SpPagesReturn ==
    /\ sp.pc = "loop"
    /\ sp.op = "pages"
    /\ sp.page_num >= Len(sp.sizes)
    /\ \E closed \in BOOLEAN :
         sp' = IF closed THEN EndRun(sp, Returned(sp, sp.chunks))
               ELSE EndRun(sp, Fallback(sp))
    /\ UNCHANGED nonsp

NextSplit ==
    \/ SpStart
    \/ SpTrial
    \/ SpCheck
    \/ SpRemove
    \/ SpFinal
    \/ SpPagesChunk
    \/ SpPagesReturn

SpecSplit == InitSplit /\ [][NextSplit]_vars

\* ------------------------------------ two calls of extract_text at once
\* The convertible source files of the two calls: two of the same stem (in
\* one directory, with different extensions) and one of another stem.
XtSources ==
    <<[dir |-> SourceDir, stem |-> "report", ext |-> ".docx"],
      [dir |-> SourceDir, stem |-> "report", ext |-> ".xlsx"],
      [dir |-> SourceDir, stem |-> "notes", ext |-> ".docx"]>>

\* os.path.join(tempfile.gettempdir(), f"{Path(file_path).stem}_converted.pdf")
temp_pdf_path(src) == [dir |-> SysTempDir, stem |-> src.stem, suffix |-> "_converted.pdf"]

\* The converted file now at a path (path is on disk).
XtFileAt(path) == CHOOSE f \in xt.disk : f.path = path
XtOnDisk(path) == \E f \in xt.disk : f.path = path
\* The other call is between its conversion and its finally block.
XtOther(c) == 3 - c
XtUsing(c) == xt.calls[c].pc \in {"limits", "ocr", "finally"}

nonxt == <<file, pc, info, strategy, split_failed, chunks, i, all_text, ocr_log,
           combined_text, disk, dirs, created, undeletable, result, fn, ocr, conc, sp>>

InitXt ==
    /\ xt \in {[XtIdle EXCEPT
                  !.calls = [c \in 1..2 |-> [XtNoCall EXCEPT !.pc = "start", !.src = d[c]]]] :
               d \in {x \in [1..2 -> 1..Len(XtSources)] : x[1] # x[2]}}
    /\ file = MissingFile
    /\ pc = "idle"
    /\ info = NoInfo
    /\ strategy = "unset"
    /\ split_failed = FALSE
    /\ chunks = <<>>
    /\ i = 0
    /\ all_text = <<>>
    /\ ocr_log = <<>>
    /\ combined_text = <<>>
    /\ disk = {}
    /\ dirs = {}
    /\ created = {}
    /\ undeletable = {}
    /\ result = NoResult
    /\ fn = FnIdle
    /\ ocr = OcrIdle
    /\ conc = ConcIdle
    /\ sp = SpIdle

\* prepare_file_for_ocr: the source is converted into temp_pdf_path, or the
\* conversion raises and extract_text ends before its try block, with the
\* output file not written or already written (convert_to_pdf raising after
\* the build, or the checks of lines 117-121 raising).
XtConvert(c) ==
    LET call == xt.calls[c]
        path == temp_pdf_path(XtSources[call.src])
        written == [xt EXCEPT
                     !.disk = {f \in @ : f.path # path}
                              \cup {[path |-> path, owner |-> c, content |-> call.src]},
                     !.touched = IF XtOnDisk(path) /\ XtFileAt(path).owner # c
                                    /\ XtUsing(XtOther(c))
                                 THEN @ \cup {[call |-> c, op |-> "overwrite"]}
                                 ELSE @]
    IN  /\ call.pc = "start"
        /\ \E converted \in {"ok", "raise", "raise after write"} :
             CASE converted = "ok" ->
                    xt' = [written EXCEPT !.calls[c].pc = "limits"]
               [] converted = "raise after write" ->
                    xt' = [written EXCEPT !.calls[c].pc = "done",
                                          !.calls[c].result = "raise"]
               [] OTHER ->
                    xt' = [xt EXCEPT !.calls[c].pc = "done", !.calls[c].result = "raise"]
        /\ UNCHANGED nonxt

\* check_file_limits(processed_file_path): os.path.getsize raises when the
\* file is gone.
XtCheckLimits(c) ==
    LET call == xt.calls[c]
        path == temp_pdf_path(XtSources[call.src])
    IN  /\ call.pc = "limits"
        /\ xt' = IF XtOnDisk(path)
                 THEN [xt EXCEPT !.calls[c].pc = "ocr"]
                 ELSE [xt EXCEPT !.calls[c].pc = "finally", !.calls[c].result = "raise"]
        /\ UNCHANGED nonxt

\* The OCR of processed_file_path, directly or through process_file_with_ocr:
\* the text is that of the file found at the path (FileNotFoundError, or None
\* from process_file_with_ocr, when it is gone).
XtOcr(c) ==
    LET call == xt.calls[c]
        path == temp_pdf_path(XtSources[call.src])
    IN  /\ call.pc = "ocr"
        /\ \E ocr_ok \in BOOLEAN :
             xt' = [xt EXCEPT
                     !.calls[c].pc = "finally",
                     !.calls[c].result =
                         IF ~XtOnDisk(path) THEN "missing"
                         ELSE IF ~ocr_ok THEN "raise"
                         ELSE IF XtFileAt(path).content = call.src THEN "own text"
                         ELSE "text of the other file"]
        /\ UNCHANGED nonxt

\* The finally block: os.remove(processed_file_path) when it exists.
XtFinally(c) ==
    LET call == xt.calls[c]
        path == temp_pdf_path(XtSources[call.src])
    IN  /\ call.pc = "finally"
        /\ \E removed \in BOOLEAN :
             IF XtOnDisk(path) /\ removed
             THEN xt' = [xt EXCEPT
                     !.calls[c].pc = "done",
                     !.disk = {f \in @ : f.path # path},
                     !.touched = IF /\ XtUsing(XtOther(c))
                                    /\ temp_pdf_path(XtSources[xt.calls[XtOther(c)].src]) = path
                                 THEN @ \cup {[call |-> c, op |-> "remove"]}
                                 ELSE @]
             ELSE xt' = [xt EXCEPT !.calls[c].pc = "done"]
        /\ UNCHANGED nonxt

NextXt ==
    \/ \E c \in 1..2 : XtConvert(c)
    \/ \E c \in 1..2 : XtCheckLimits(c)
    \/ \E c \in 1..2 : XtOcr(c)
    \/ \E c \in 1..2 : XtFinally(c)

SpecXt == InitXt /\ [][NextXt]_vars






\* ======================================================== checked properties
Called == pc \in {"ocr", "cleanup", "done"} /\ strategy # "unset"

\* C1: the splitter called is fixed by this precedence: a .pdf with more than
\* max_pages pages is split by pages (whatever its size); a .pdf within the
\* page limit and larger than max_size_bytes is split by size; a non-PDF file
\* larger than max_size_bytes is compressed; in every other case no splitter
\* is called (no temporary directory, no file written).
C1_StrategyPrecedence ==
    strategy # "unset" =>
        /\ strategy =
              IF file.ext = ".pdf" /\ info.page_count > max_pages THEN "pages"
              ELSE IF file.ext = ".pdf" /\ info.file_size > max_size_bytes THEN "size"
              ELSE IF file.ext # ".pdf" /\ info.file_size > max_size_bytes THEN "image"
              ELSE "none"
        /\ strategy = "none" => created = {} /\ dirs = {}
C1_Witness ==
    /\ strategy = "pages"
    /\ info.file_size > max_size_bytes
    /\ info.page_count > max_pages
    /\ Len(chunks) >= 2

\* C2: a file whose size is at most max_size_bytes and whose page count is at
\* most max_pages (a file exactly at a limit included) gives the chunk list
\* [file_path], and no file is written.
C2_WithinLimitsOneChunk ==
    (/\ Called
     /\ info.file_size <= max_size_bytes
     /\ info.page_count <= max_pages)
    => /\ chunks = <<SourceChunk(file)>>
       /\ created = {}
       /\ disk = {FilePath(file)}
C2_Witness ==
    /\ pc = "done"
    /\ info.file_size = max_size_bytes
    /\ info.page_count = max_pages
    /\ chunks = <<SourceChunk(file)>>
    /\ created = {}

\* A splitter called directly has returned the chunks it made: mkdtemp did not
\* raise and no exception was caught by returning [file_path].
FnCompleted == fn.called /\ ~fn.raised /\ ~fn.failed

\* C3: split_pdf_by_pages on n >= 1 pages, when no file operation fails,
\* returns ceil(n / maxPages) chunks; chunk k (from 0) holds exactly the pages
\* k*maxPages .. min((k+1)*maxPages, n) - 1.
CeilDiv(a, b) == (a + b - 1) \div b
C3_PageSplitBoundaries ==
    (fn.op = "pages" /\ FnCompleted /\ Len(fn.sizes) >= 1) =>
        LET n == Len(fn.sizes)
            m == fn.maxp
        IN  /\ Len(fn.out) = CeilDiv(n, m)
            /\ \A k \in 0..(Len(fn.out) - 1) :
                 LET first == k * m
                     last == Min((k + 1) * m, n) - 1
                     c == fn.out[k + 1]
                 IN  /\ Len(c) = last - first + 1
                     /\ \A x \in 1..Len(c) : c[x] = first + x - 1
                     /\ Len(c) >= 1 /\ Len(c) <= m
                     /\ k < Len(fn.out) - 1 => Len(c) = m
C3_Witness ==
    /\ fn.op = "pages"
    /\ FnCompleted
    /\ Len(fn.sizes) = 25
    /\ fn.maxp = 10
    /\ [k \in 1..Len(fn.out) |-> Len(fn.out[k])] = <<10, 10, 5>>

\* C4: split_pdf_by_size is the greedy forward fill: the chunks are contiguous
\* page runs covering the pages in order; inside a chunk every prefix of two or
\* more pages has a trial size of at most the target; and a chunk that is not
\* the last one ends exactly where adding the next page makes the trial larger
\* than the target.
Run(a, b) == [k \in 1..(b - a + 1) |-> a + k - 1]
RECURSIVE Flatten(_)
Flatten(ss) == IF ss = <<>> THEN <<>> ELSE Head(ss) \o Flatten(Tail(ss))
C4_SizeSplitGreedy ==
    (fn.op = "size" /\ FnCompleted) =>
        LET n == Len(fn.sizes)
            out == fn.out
        IN  /\ Flatten(out) = Run(0, n - 1)
            /\ \A k \in 1..Len(out) :
                 LET c == out[k]
                 IN  /\ c # <<>>
                     /\ c = Run(c[1], c[Len(c)])
                     /\ \A x \in 2..Len(c) :
                          pdf_size(SubSeq(c, 1, x), fn.sizes) <= fn.target
                     /\ k < Len(out) =>
                          pdf_size(Append(c, c[Len(c)] + 1), fn.sizes) > fn.target
C4_Witness ==
    /\ fn.op = "size"
    /\ FnCompleted
    /\ fn.target = max_size_bytes
    /\ fn.sizes = <<3 * MiB, 7 * MiB, 3 * MiB>>
    /\ fn.out = << <<0, 1>>, <<2>> >>

\* C5: in split_pdf_by_size a page larger than the target on its own is
\* emitted as a one-page chunk; a one-page PDF over the target gives exactly
\* one chunk, holding that page.
C5_OversizedPageOwnChunk ==
    (fn.op = "size" /\ FnCompleted) =>
        /\ \A p \in 0..(Len(fn.sizes) - 1) :
              pdf_size(<<p>>, fn.sizes) > fn.target =>
                 \E k \in 1..Len(fn.out) : fn.out[k] = <<p>>
        /\ Len(fn.sizes) = 1 => fn.out = << <<0>> >>
C5_Witness ==
    /\ fn.op = "size"
    /\ FnCompleted
    /\ fn.sizes = <<11 * MiB>>
    /\ fn.target = max_size_bytes
    /\ fn.out = << <<0>> >>


\* The tokens of a text that are not newlines.
Unlined(t) == SelectSeq(t, LAMBDA c : c # NL)
\* The kept texts joined from the left, one newline between neighbours.
RECURSIVE JoinLeft(_)
JoinLeft(ts) ==
    IF ts = <<>> THEN <<>>
    ELSE IF Len(ts) = 1 THEN ts[1]
    ELSE JoinLeft(SubSeq(ts, 1, Len(ts) - 1)) \o <<NL>> \o ts[Len(ts)]
HasInk(t) == \E k \in 1..Len(t) : t[k] \notin Whitespace
\* The texts of the OCR calls that returned something other than whitespace.
KeptOfLog ==
    LET kept == SelectSeq(ocr_log, LAMBDA e : ~e.raised /\ HasInk(e.text))
    IN  [k \in 1..Len(kept) |-> kept[k].text]
\* Every OCR call so far behaved as the stub that echoes one marker per page.
StubEcho ==
    \A k \in 1..Len(ocr_log) :
        /\ ~ocr_log[k].raised
        /\ ocr_log[k].text = OcrText("echo", chunks[ocr_log[k].index])

\* C6: with the stub extractor that echoes one marker per page of its chunk,
\* the returned text lists the markers of the source pages 0..n-1 in order,
\* each once, for the page split, the size split and the unsplit file.
C6_RoundTripOrder ==
    (/\ pc = "done"
     /\ result.kind = "text"
     /\ strategy \in {"none", "pages", "size"}
     /\ StubEcho)
    => Unlined(result.text) = [k \in 1..Len(file.pages) |-> PageMark(k - 1)]
C6_Witness ==
    /\ pc = "done"
    /\ result.kind = "text"
    /\ strategy = "size"
    /\ ~split_failed
    /\ Len(chunks) = 2
    /\ Len(file.pages) = 3
    /\ StubEcho
    /\ Len(ocr_log) = 2

\* C7: the returned text is the texts of the chunks whose OCR call returned
\* something other than whitespace, in chunk order, with exactly one newline
\* between neighbours; an empty or blank text adds nothing.
C7_JoinKeptTexts ==
    (pc = "done" /\ result.kind = "text") => result.text = JoinLeft(KeptOfLog)
C7_Witness ==
    /\ pc = "done"
    /\ result.kind = "text"
    /\ Len(ocr_log) = 3
    /\ ocr_log[1].text = <<SP, Mark, NL>>
    /\ ocr_log[2].text = <<SP, NL>>
    /\ ocr_log[3].text = <<SP, Mark, NL>>
    /\ result.text = <<SP, Mark, NL, NL, SP, Mark, NL>>

\* C8: when the OCR call of a chunk raises, the chunk counts as empty, every
\* later chunk still gets its OCR call, and the call returns the join of the
\* texts of the other chunks as a text.
C8_OcrFailureTolerated ==
    (pc \in {"cleanup", "done"} /\ \E k \in 1..Len(ocr_log) : ocr_log[k].raised)
    => /\ Len(ocr_log) = Len(chunks)
       /\ \A k \in 1..Len(ocr_log) :
             ocr_log[k].index = k /\ ocr_log[k].path = chunks[k].path
       /\ combined_text = JoinLeft(KeptOfLog)
       /\ pc = "done" => result = [kind |-> "text", text |-> combined_text]
C8_Witness ==
    /\ pc = "done"
    /\ Len(chunks) = 3
    /\ ocr_log[1].raised
    /\ ~ocr_log[2].raised /\ ~ocr_log[3].raised
    /\ result.kind = "text"
    /\ Len(result.text) > 3

\* C9 as stated: when the splitting step fails, the failure reaches the
\* caller: no chunk list is returned, no OCR call is made and no text is
\* returned.
\* Refuted: the except block of each splitter returns [file_path], the source
\* is sent to OCR and the call returns that text.
C9_SplitFailureIsHard ==
    (split_failed /\ pc = "done") =>
        /\ chunks = <<>>
        /\ ocr_log = <<>>
        /\ result.kind # "text"

\* C10: once the call has exited, no chunk file it created is on disk
\* (files whose os.remove raised set aside).
C10_NoChunkFileRemains ==
    pc = "done" => (created \cap disk) \subseteq undeletable


\* C14 as stated: a re-encoded image gets the quality floor(90 * maxSizeBytes /
\* current) kept within 10..90, for every pair of sizes, in one re-encoded chunk.
C14_QualityIsClampedFloor ==
    (fn.op = "image" /\ getsize(ImageOf(fn.sizes)) > fn.target /\ FnCompleted) =>
        LET current == getsize(ImageOf(fn.sizes))
            floor == (90 * fn.target) \div current
        IN  /\ fn.quality = (IF floor < 10 THEN 10 ELSE floor)
            /\ fn.paths = <<CompressedPath(ImageOf(fn.sizes))>>
            /\ fn.written = {CompressedPath(ImageOf(fn.sizes))}

\* C15 as stated: split_image_by_size on an image of at most maxSizeBytes is
\* a no-op: it returns the list holding only the original path, writes no
\* file and leaves the file system as it was.
\* Refuted: tempfile.mkdtemp() runs before the size is read, so the call
\* leaves a new temporary directory (or raises when mkdtemp does).
C15_ImageWithinLimitNoop ==
    (fn.op = "image" /\ fn.called /\ getsize(ImageOf(fn.sizes)) <= fn.target) =>
        /\ ~fn.raised
        /\ fn.paths = <<FilePath(ImageOf(fn.sizes))>>
        /\ fn.written = {}
        /\ disk = {}
        /\ dirs = {}

\* C11: the source file is never deleted or written by the call: it stays on
\* disk and is none of the files the call writes, also after the cleanup loop
\* has walked a chunk list that holds the source path.
C11_SourceUntouched ==
    file.exists => FilePath(file) \in disk /\ FilePath(file) \notin created
C11_Witness ==
    /\ pc = "done"
    /\ split_failed
    /\ chunks = <<SourceChunk(file)>>
    /\ result.kind = "text"
    /\ FilePath(file) \in disk
    /\ created # {}

\* C12: the OCR calls are one per chunk of the chunk list, in ascending chunk
\* index; a chunk still over a limit gets its call like any other.
C12_OcrOncePerChunkInOrder ==
    /\ pc = "ocr" => Len(ocr_log) = i - 1
    /\ (pc \in {"cleanup", "done"} /\ result.kind # "raise" /\ strategy # "unset")
          => Len(ocr_log) = Len(chunks)
    /\ \A k \in 1..Len(ocr_log) :
          ocr_log[k].index = k /\ ocr_log[k].path = chunks[k].path
C12_Witness ==
    /\ pc = "done"
    /\ strategy = "size"
    /\ Len(chunks) = 3
    /\ Len(ocr_log) = 3
    /\ pdf_size(chunks[2].pages, file.pages) > max_size_bytes
    /\ ocr_log[2].path = chunks[2].path

\* C13 as stated: when the extraction of the next chunk begins, the temporary
\* file of every chunk extracted before it is gone.
C13_DestroyedAfterOwnOcr ==
    (pc = "ocr" /\ i >= 2 /\ i <= Len(chunks)) =>
        \A k \in 1..(i - 1) :
            chunks[k].path # FilePath(file) => chunks[k].path \notin disk

\* C13, amended: every chunk file stays on disk during the whole OCR loop; a
\* chunk file is removed only by the cleanup loop, after all texts were joined.
C13_ChunksKeptUntilCleanup ==
    /\ pc = "ocr" => \A k \in 1..Len(chunks) : chunks[k].path \in disk
    /\ pc = "cleanup" => \A k \in i..Len(chunks) : chunks[k].path \in disk
C13_Witness ==
    /\ pc = "ocr"
    /\ Len(chunks) = 3
    /\ i = 3
    /\ Len(ocr_log) = 2
    /\ chunks[1].path # FilePath(file)
    /\ chunks[1].path \in disk

\* C20: when os.remove of a chunk file (or os.rmdir of its directory) fails,
\* the call still returns the joined text, and the cleanup loop has still
\* tried every other chunk file.
C20_CleanupFailureTolerated ==
    (pc = "done" /\ undeletable # {}) =>
        /\ result = [kind |-> "text", text |-> JoinLeft(KeptOfLog)]
        /\ \A k \in 1..Len(chunks) :
              chunks[k].path # FilePath(file) =>
                 chunks[k].path \notin disk \/ chunks[k].path \in undeletable
C20_Witness ==
    /\ pc = "done"
    /\ Len(chunks) = 3
    /\ chunks[1].path \in undeletable
    /\ chunks[1].path \in disk
    /\ chunks[2].path \notin disk
    /\ chunks[3].path \notin disk
    /\ result.kind = "text"
    /\ result.text # <<>>


\* ---------------------------------------------------------------- C16
\* The page count the claim describes: for a PDF the count of the first
\* library, else of the second, else 1; for any other file 1.
TwoLibraryPageCount(f) ==
    IF f.ext = ".pdf"
    THEN IF f.fitz_ok \/ f.pypdf_ok THEN Len(f.pages) ELSE 1
    ELSE 1

\* get_file_info has run in this call of process_file_with_ocr.
Inspected == pc \in {"select", "ocr", "cleanup", "done"} /\ file.exists
\* check_file_limits has run in this call of extract_text.
LimitsChecked ==
    \/ ocr.pc \in {"delegated", "finally"}
    \/ ocr.pc = "done" /\ ocr.error \notin {"FileNotFoundError", "ValueError", "Exception"}

\* C16 as stated: every page count used for a limit decision, by
\* process_file_with_ocr or by extract_text, follows the two-library rule.
\* Refuted: DocumentOCR.get_page_count counts 1 for a PDF that only PyPDF2
\* can read, and counts the frames of an image.
C16_TwoLibraryCountEverywhere ==
    /\ Inspected => info.page_count = TwoLibraryPageCount(file)
    /\ LimitsChecked => ocr.limits.page_count = TwoLibraryPageCount(file)

\* ---------------------------------------------------------------- C18
\* The source of extract_text is missing or of a format that is neither
\* supported nor convertible.
Unprocessable ==
    \/ ~ocr.source.exists
    \/ ocr.source.ext \notin supported_extensions \cup supported_formats

\* C18: for a missing file or an unsupported format, extract_text makes no
\* chunk and no OCR call at any time, and ends by raising FileNotFoundError
\* or ValueError to its caller.
C18_FailFast ==
    (ocr.pc # "idle" /\ Unprocessable) =>
        /\ ocr_log = <<>>
        /\ ocr.direct = <<>>
        /\ chunks = <<>>
        /\ created = {}
        /\ dirs = {}
        /\ pc = "idle"
        /\ ocr.pc \in {"start", "done"}
        /\ ocr.pc = "done" =>
             /\ ocr.result = Raised
             /\ ocr.error = IF ocr.source.exists THEN "ValueError" ELSE "FileNotFoundError"

\* C18 witness: extract_text has ended on a file of an unsupported format.
C18_Witness ==
    /\ ocr.pc = "done"
    /\ ocr.source.exists
    /\ ocr.source.ext = ".xyz"
    /\ ocr.error = "ValueError"

\* ---------------------------------------------------------------- C19
\* C19 as stated: every call of process_file_with_ocr ends by raising or by
\* returning a text string, never None.
\* Refuted: for a file_path that does not exist the call returns None.
C19_RaiseOrTextOnly ==
    pc = "done" => result.kind \in {"raise", "text"}

\* C19 amended: every call of process_file_with_ocr ends by raising, by
\* returning a text string, or by returning None; it returns None exactly
\* when file_path does not exist, and a call that raised has made no OCR call.
C19_NoneOnlyForMissingFile ==
    pc = "done" =>
        /\ result.kind \in {"raise", "text", "None"}
        /\ result.kind = "None" <=> ~file.exists
        /\ result.kind = "raise" => ocr_log = <<>>
        /\ result.kind = "text" => result.text = combined_text

\* C19 witness: a call on a missing file has returned None.
C19_Witness ==
    /\ pc = "done"
    /\ ~file.exists
    /\ result.kind = "None"
    /\ ocr_log = <<>>

\* ---------------------------------------------------------------- C17
\* A write, read or removal recorded for a call met a file of the other call.
Interferes(t) == t.owner \notin {0, t.call}

\* C17: under every interleaving of two calls, no call reads, overwrites or
\* deletes a chunk file the other call wrote, and while both calls hold a
\* temporary directory the two directories differ.
C17_NoInterference ==
    /\ \A t \in conc.touched : ~Interferes(t)
    /\ \A o \in conc.owner : \E c \in 1..2 : o[2] = c /\ o[1].dir = conc.calls[c].dir
    /\ (conc.calls[1].dir # 0 /\ conc.calls[2].dir # 0) =>
           conc.calls[1].dir # conc.calls[2].dir

\* C17 witness: call 1 has removed a chunk file of its own while call 2 is
\* inside its OCR loop with a chunk file of its own on disk.
C17_Witness ==
    /\ \E t \in conc.touched : t.call = 1 /\ t.op = "remove" /\ t.path.kind = "chunk"
    /\ conc.calls[2].pc = "ocr"
    /\ conc.calls[2].idx > 1
    /\ \E o \in conc.owner : o[2] = 2
    /\ conc.calls[1].doc # conc.calls[2].doc

\* ---------------------------------------------------------------- C30
\* C30 as stated: the chunk list of a call on an existing file that returned
\* is never empty, and at least one file was submitted to OCR.
\* Refuted: split_pdf_by_size returns [] for a PDF of 0 pages over the size limit.
C30_ChunkListNeverEmpty ==
    (pc = "done" /\ file.exists /\ result.kind = "text") =>
        /\ chunks # <<>>
        /\ ocr_log # <<>>

\* ---------------------------------------------------------------- C29
\* C29 as stated: once the call has returned, with every os.remove and
\* os.rmdir it attempted having succeeded, no temporary directory a splitter
\* made is left.
\* Refuted: a splitter that fell back to [file_path] leaves its directory.
C29_NoTempDirRemains ==
    (pc = "done" /\ result.kind = "text" /\ undeletable = {}) => dirs = {}

\* ---------------------------------------------------------------- C24
\* C24 as stated: check_file_limits and get_file_info/needs_splitting decide
\* alike for every file, so a delegated file is one FileProcessor splits.
\* Refuted: they count the pages of a PDF the first library cannot read, and
\* of an image of several frames, differently.
C24_InspectorsAgree ==
    /\ LimitsChecked =>
         LET fi == get_file_info(file)
             ns == needs_splitting(fi.file_size, fi.page_count)
         IN  /\ ocr.limits.size_exceeds = ns.size_exceeds
             /\ ocr.limits.pages_exceed = ns.pages_exceed
    /\ (ocr.pc = "delegated" /\ Inspected) =>
         /\ info.size_exceeds = ocr.limits.size_exceeds
         /\ info.pages_exceed = ocr.limits.pages_exceed

\* ---------------------------------------------------------------- C26
\* C26 as stated: every chunk file is submitted to OCR with the MIME type of
\* its actual encoding; the re-encoded image is submitted as image/jpeg.
\* Refuted: compressed_<name> keeps the extension of the source image, and
\* the declared type is taken from the extension.
C26_DeclaredMimeIsEncoding ==
    \A k \in 1..Len(ocr_log) :
        /\ ocr_log[k].mime = encoding(ocr_log[k].path)
        /\ ocr_log[k].path.kind = "compressed" => ocr_log[k].mime = "image/jpeg"

\* ---------------------------------------------------------------- C27
\* C27: the caller's file is on disk at every moment of extract_text; when
\* extract_text ends after a conversion, the converted file is gone unless
\* its os.remove failed, whether the text came from the direct call, the
\* direct call raised, or process_file_with_ocr was called; when no
\* conversion took place extract_text removes nothing.
C27_ConvertedFileRemoved ==
    (ocr.pc # "idle" /\ ocr.source.exists) =>
        /\ FilePath(ocr.source) \in disk
        /\ ocr.pc = "done" =>
             /\ (ocr.is_temporary /\ ocr.cleanup # "failed") =>
                    /\ ocr.cleanup = "removed"
                    /\ FilePath(Converted(ocr.source)) \notin disk
             /\ ~ocr.is_temporary => ocr.cleanup = "none"

\* C27 witness: extract_text ended with an exception of the direct OCR call
\* on a converted file, and the converted file is gone.
C27_Witness ==
    /\ ocr.pc = "done"
    /\ ocr.is_temporary
    /\ ocr.error = "ocr"
    /\ ocr.result = Raised
    /\ ocr.cleanup = "removed"
    /\ FilePath(Converted(ocr.source)) \notin disk

\* ---------------------------------------------------------------- C28
\* C28: for a file check_file_limits finds within both limits, extract_text
\* makes one call of extract_text_from_single_file on the processed file and
\* none through process_file_with_ocr; it returns that call's text as it is,
\* and an exception of the call reaches the caller.
C28_DirectCallUnchanged ==
    (/\ ocr.pc = "done"
     /\ LimitsChecked
     /\ ~ocr.limits.size_exceeds
     /\ ~ocr.limits.pages_exceed) =>
        /\ Len(ocr.direct) = 1
        /\ ocr.direct[1].path = FilePath(file)
        /\ pc = "idle"
        /\ ocr_log = <<>>
        /\ chunks = <<>>
        /\ dirs = {}
        /\ ocr.result = IF ocr.direct[1].raised THEN Raised
                        ELSE [kind |-> "text", text |-> ocr.direct[1].text]

\* C28 witness: a converted file within both limits gave a text with
\* whitespace around it, returned as it is.
C28_Witness ==
    /\ ocr.pc = "done"
    /\ ocr.is_temporary
    /\ Len(ocr.direct) = 1
    /\ ocr.direct[1].text = <<SP, Mark, NL>>
    /\ ocr.result = [kind |-> "text", text |-> <<SP, Mark, NL>>]

\* ---------------------------------------------------------------- C23
\* C23: every chunk split_pdf_by_size returns holds exactly one page or has
\* a size (that of the trial file of the same pages) of at most the target;
\* no chunk of two or more pages is larger than the target.
C23_ChunkOnePageOrWithinTarget ==
    (fn.op = "size" /\ FnCompleted) =>
        \A k \in 1..Len(fn.out) :
            \/ Len(fn.out[k]) = 1
            \/ /\ Len(fn.out[k]) >= 2
               /\ pdf_size(fn.out[k], fn.sizes) <= fn.target

\* C23 witness: one returned chunk of two pages is exactly at the target and
\* another is a single page larger than the target.
C23_Witness ==
    /\ fn.op = "size"
    /\ FnCompleted
    /\ \E k \in 1..Len(fn.out) :
         Len(fn.out[k]) = 2 /\ pdf_size(fn.out[k], fn.sizes) = fn.target
    /\ \E k \in 1..Len(fn.out) :
         Len(fn.out[k]) = 1 /\ pdf_size(fn.out[k], fn.sizes) > fn.target

\* ---------------------------------------------------------------- C22
\* The files now in the temporary directory of the running call.
InTempDir == {f \in sp.disk : f.path.dir = sp.temp_dir}
TrialFiles == {f \in InTempDir : f.path.kind = "trial"}
SizeRunning == sp.op = "size" /\ sp.pc \in {"loop", "check", "remove"}
\* The last call returned its chunk list.
LastOut == sp.outs[Len(sp.outs)]

\* C22: while split_pdf_by_size runs its directory holds at most one trial
\* file; a trial file exists only between its save and the end of the pass
\* that read its size, so none is there when the next page is examined; no
\* returned path is a trial file; and after a normal return the directory
\* holds exactly the returned chunk files, each with the pages of its chunk.
C22_TrialFilesDiscarded ==
    /\ SizeRunning =>
         /\ Cardinality(TrialFiles) <= 1
         /\ sp.pc = "loop" => TrialFiles = {}
         /\ sp.pc \in {"check", "remove"} =>
              TrialFiles = {[path |-> SpPath(sp.temp_dir, "trial", sp.trial_num),
                             pages |-> IF sp.closed /\ sp.pc = "remove"
                                       THEN Append(sp.chunks[Len(sp.chunks)].pages,
                                                   sp.page_num)
                                       ELSE sp.current_chunk_pages]}
         /\ \A k \in 1..Len(sp.chunks) : sp.chunks[k].path.kind = "chunk"
    /\ (sp.op = "size" /\ sp.outs # <<>> /\ LastOut.kind = "chunks") =>
         /\ \A k \in 1..Len(LastOut.paths) : LastOut.paths[k].kind = "chunk"
         /\ {f \in sp.disk : f.path.dir = LastOut.dir} =
                {[path |-> LastOut.paths[k], pages |-> LastOut.lists[k]] :
                    k \in 1..Len(LastOut.paths)}

\* C22 witness: a call of split_pdf_by_size returned two chunks, after three
\* trial files had been saved and removed, and its directory holds the two.
C22_Witness ==
    /\ sp.op = "size"
    /\ sp.sizes = <<3 * MiB, 7 * MiB, 3 * MiB>>
    /\ sp.target = max_size_bytes
    /\ Len(sp.outs) = 1
    /\ LastOut.kind = "chunks"
    /\ LastOut.lists = << <<0, 1>>, <<2>> >>
    /\ Cardinality({f \in sp.disk : f.path.dir = LastOut.dir}) = 2

\* The step-by-step run returns the page lists of the splitter operators.
StepsAgreeWithOperators ==
    \A k \in 1..Len(sp.outs) :
        sp.outs[k].kind = "chunks" =>
            sp.outs[k].lists = IF sp.op = "size"
                               THEN split_pdf_by_size(sp.sizes, sp.target)
                               ELSE split_pdf_by_pages(Len(sp.sizes), sp.maxp)

\* ---------------------------------------------------------------- C25
\* C25 as stated: two concurrent calls of extract_text on two different
\* convertible files never use the same converted path, so neither call
\* overwrites or removes the converted file the other is still reading, and
\* each call reads the file it converted.
\* Refuted: the path is made of the stem alone, so report.docx and
\* report.xlsx (or two report.docx of two directories) share it.
C25_ConvertedPathsDistinct ==
    /\ (XtUsing(1) /\ XtUsing(2) /\ xt.calls[1].src # xt.calls[2].src) =>
         temp_pdf_path(XtSources[xt.calls[1].src]) # temp_pdf_path(XtSources[xt.calls[2].src])
    /\ xt.touched = {}
    /\ \A c \in 1..2 : xt.calls[c].result \notin {"missing", "text of the other file"}

====
